---- MODULE Spec2Model ----
(***************************************************************************)
(* The declarative reconciliation engine of module-manager                 *)
(* (package declarative, ManifestReconciler).  One custom resource lives   *)
(* in the cluster store; Reconcile and the exported Handle*State methods   *)
(* read it, call the installer and commit with Update / Status().Update.   *)
(***************************************************************************)
EXTENDS Integers, Sequences, FiniteSets, TLC

VARIABLES
    stored,     \* the resource as persisted by the cluster API
    prototype,  \* r.prototype: representation of the object Inject received
    options,    \* r.options (manifestOptions), in-process state of the engine
    last,       \* record of the most recent pass (history, not program state)
    procs       \* the passes in flight: what each worker read and has yet to do

vars == <<stored, prototype, options, last, procs>>

----------------------------------------------------------------------------
(* Program constants *)

deletionFinalizer == "custom-deletion-finalizer"

CustomStateEmpty == ""
CustomStateProcessing == "Processing"
CustomStateDeleting == "Deleting"
CustomStateError == "Error"
CustomStateReady == "Ready"

\* A value of status.State that is none of the cases of the switch.
UnrecognisedState == "Pending"

\* A finalizer owned by some other controller of the cluster.
foreignFinalizer == "foreign-finalizer"

\* Representations of a BaseCustomObject: a types.CustomObject, an
\* *unstructured.Unstructured, or any other runtime.Object + metav1.Object.
Reps == {"typed", "generic", "other"}

\* Values of Spec.ChartFlags an owner may write (helm strvals syntax).
ChartFlagsSet == {"", "replicas=1", "replicas"}

\* Label keys: one already on the resource, one configured in the options.
ResourceLabelKeys == {"managed-by"}
OwnLabelKeys == {"app"}

----------------------------------------------------------------------------
(* The persisted resource and its in-memory copies *)

ZeroStatus == [State |-> CustomStateEmpty, Conditions |-> <<>>]

\* runtime.DefaultUnstructuredConverter.ToUnstructured on a status: a map
\* keyed by json names; the empty conditions list is omitted.
ToUnstructuredStatus(status) ==
    IF status.Conditions = <<>>
    THEN [state |-> status.State]
    ELSE [state |-> status.State, conditions |-> status.Conditions]

\* runtime.DefaultUnstructuredConverter.FromUnstructured into a status: a
\* missing key leaves the zero value of the field.
FromUnstructuredStatus(m) ==
    [State |-> IF "state" \in DOMAIN m THEN m.state ELSE CustomStateEmpty,
     Conditions |-> IF "conditions" \in DOMAIN m THEN m.conditions ELSE <<>>]

ToUnstructuredSpec(spec) ==
    [chartPath |-> spec.ChartPath, releaseName |-> spec.ReleaseName,
     chartFlags |-> spec.ChartFlags]

FromUnstructuredSpec(m) ==
    [ChartPath |-> IF "chartPath" \in DOMAIN m THEN m.chartPath ELSE "",
     ReleaseName |-> IF "releaseName" \in DOMAIN m THEN m.releaseName ELSE "",
     ChartFlags |-> IF "chartFlags" \in DOMAIN m THEN m.chartFlags ELSE ""]

\* nativeClient.Get into a copy of the prototype: the in-memory object.  A
\* typed object holds spec and status as fields, a generic one as nested maps
\* under "spec" and "status"; any other object carries metadata only.
GetObjectOf(res, rep) ==
    [rep |-> rep,
     spec |-> IF rep = "generic" THEN ToUnstructuredSpec(res.spec) ELSE res.spec,
     status |-> IF rep = "generic" THEN ToUnstructuredStatus(res.status)
                ELSE res.status,
     finalizers |-> res.finalizers,
     deletionTimestamp |-> res.deletionTimestamp,
     labels |-> res.labels]

GetObject(rep) == GetObjectOf(stored, rep)

----------------------------------------------------------------------------
(* ObjectAccessor: results are [err, val] *)

\* The methods of a types.CustomObject: GetSpec, GetStatus, SetStatus.
CustomObjectGetSpec(obj) == obj.spec

CustomObjectGetStatus(obj) == obj.status

CustomObjectSetStatus(obj, status) == [obj EXCEPT !.status = status]

getStatusFromObjectInstance(obj) ==
    CASE obj.rep = "typed" -> [err |-> "nil", val |-> CustomObjectGetStatus(obj)]
      [] obj.rep = "generic" -> [err |-> "nil", val |-> FromUnstructuredStatus(obj.status)]
      [] OTHER -> [err |-> "typeError", val |-> ZeroStatus]

getSpecFromObjectInstance(obj) ==
    CASE obj.rep = "typed" -> [err |-> "nil", val |-> CustomObjectGetSpec(obj)]
      [] obj.rep = "generic" -> [err |-> "nil", val |-> FromUnstructuredSpec(obj.spec)]
      [] OTHER -> [err |-> "typeError",
                   val |-> [ChartPath |-> "", ReleaseName |-> "", ChartFlags |-> ""]]

\* setStatusForObjectInstance writing the nested map under "spec".
setStatusForObjectInstance_WrongKey(obj, status) ==
    CASE obj.rep = "typed" -> [err |-> "nil", obj |-> CustomObjectSetStatus(obj, status)]
      [] obj.rep = "generic" ->
            [err |-> "nil", obj |-> [obj EXCEPT !.spec = ToUnstructuredStatus(status)]]
      [] OTHER -> [err |-> "typeError", obj |-> obj]

\* Result is [err, obj]: the object with its status replaced.
setStatusForObjectInstance(obj, status) ==
    CASE obj.rep = "typed" -> [err |-> "nil", obj |-> CustomObjectSetStatus(obj, status)]
      [] obj.rep = "generic" ->
            [err |-> "nil", obj |-> [obj EXCEPT !.status = ToUnstructuredStatus(status)]]
      [] OTHER -> [err |-> "typeError", obj |-> obj]

----------------------------------------------------------------------------
(* Inputs of one pass: what the collaborators answer when they are asked *)

\* Install / Uninstall return (bool, error): done, in progress, or failed.
InstallerResponses ==
    {[done |-> TRUE, err |-> FALSE], [done |-> FALSE, err |-> FALSE],
     [done |-> FALSE, err |-> TRUE]}

\* The record of one installer call: the function and what it returned.
Call(fn, in) == [fn |-> fn, done |-> in.inst.done, err |-> in.inst.err]

\* getErr: Get fails with an error other than NotFound.  newOpsErr:
\* manifest.NewOperations fails.  inst: the installer's answer.  commitOK:
\* the cluster API accepts the write (no conflict).
Inputs == [getErr : BOOLEAN, newOpsErr : BOOLEAN, inst : InstallerResponses,
           commitOK : BOOLEAN]

\* What nativeClient.Get answers for the resource res: an error, NotFound
\* when the resource is gone, or the resource.
GetResult(res, in) ==
    IF in.getErr THEN "error" ELSE IF ~res.exists THEN "notFound" ELSE "ok"

\* The inputs a handler called on an object in hand can consume: it makes no Get.
HandlerInputs == {in \in Inputs : ~in.getErr}

\* The inputs of a handler that builds no manifest client and calls no installer.
CommitInputs ==
    {in \in HandlerInputs : ~in.newOpsErr /\ in.inst = [done |-> FALSE, err |-> FALSE]}

\* A handler's outcome: the object it holds when it returns, the write it
\* issues as its last statement ("none", "Update" or "UpdateStatus"), the
\* installer calls it made, the value it returns unless the write fails,
\* r.options as it leaves them, what getManifestClient returned to it, and
\* the writes it issued from entry to return, in order.
Return(obj, ret, calls) ==
    [obj |-> obj, commit |-> "none", calls |-> calls, ret |-> ret, options |-> options,
     mc |-> "notCalled", writes |-> <<>>]

\* StatusUpdate going on to r.nativeClient.Update after the status write.
StatusUpdate_ThenUpdate(obj, status, state, calls) ==
    LET set == setStatusForObjectInstance(obj, [status EXCEPT !.State = state])
    IN IF set.err # "nil"
       THEN Return(obj, set.err, calls)
       ELSE [obj |-> set.obj, commit |-> "UpdateStatus", calls |-> calls,
             ret |-> "nil", options |-> options, mc |-> "notCalled",
             writes |-> <<"UpdateStatus", "Update">>]

\* status.State = state; setStatusForObjectInstance; return Status().Update
StatusUpdate(obj, status, state, calls) ==
    LET set == setStatusForObjectInstance(obj, [status EXCEPT !.State = state])
    IN IF set.err # "nil"
       THEN Return(obj, set.err, calls)
       ELSE [obj |-> set.obj, commit |-> "UpdateStatus", calls |-> calls,
             ret |-> "nil", options |-> options, mc |-> "notCalled",
             writes |-> <<"UpdateStatus">>]

\* return r.nativeClient.Update(ctx, objectInstance)
Update(obj, calls, opts) ==
    [obj |-> obj, commit |-> "Update", calls |-> calls, ret |-> "nil", options |-> opts,
     mc |-> "notCalled", writes |-> <<"Update">>]

\* The outcome of a handler that called getManifestClient and got mc.
WithClient(mc, out) == [out EXCEPT !.mc = mc]

\* strvals.ParseInto: a key without "=value" is a parse error.
strvalsParseInto(configString) ==
    IF configString \in {"", "replicas=1"} THEN "nil" ELSE "parseError"

getManifestClient(configString, in) ==
    IF strvalsParseInto(configString) # "nil" THEN strvalsParseInto(configString)
    ELSE IF in.newOpsErr THEN "newOperationsError"
    ELSE "nil"

\* The typed branch assigns to a field of the nil pointer unstructuredObj:
\* a run-time panic.
prepareInstallInfo(obj) ==
    CASE obj.rep = "typed" -> "panic"
      [] obj.rep = "generic" -> "nil"
      [] OTHER -> "typeError"

\* controllerutil.RemoveFinalizer: the object without the finalizer.
RemoveFinalizer(obj, finalizer) == [obj EXCEPT !.finalizers = @ \ {finalizer}]

----------------------------------------------------------------------------
(* The state handlers *)

\* HandleInitialState sending an object with the labels and an empty spec.
HandleInitialState_DropSpec(obj, in) ==
    LET status == getStatusFromObjectInstance(obj)
        empty == [ChartPath |-> "", ReleaseName |-> "", ChartFlags |-> ""]
    IN IF status.err # "nil" THEN Return(obj, status.err, <<>>)
       ELSE IF options.resourceLabels # {}
       THEN IF obj.labels = {}
            THEN Return(obj, "panic", <<>>)
            ELSE Update([obj EXCEPT !.labels = @ \cup options.resourceLabels,
                                    !.spec = IF obj.rep = "generic"
                                             THEN ToUnstructuredSpec(empty)
                                             ELSE empty],
                        <<>>, [options EXCEPT !.resourceLabels = {}])
       ELSE StatusUpdate(obj, status.val, CustomStateProcessing, <<>>)

HandleInitialState(obj, in) ==
    LET status == getStatusFromObjectInstance(obj)
    IN IF status.err # "nil" THEN Return(obj, status.err, <<>>)
       ELSE IF options.resourceLabels # {}
       THEN IF obj.labels = {}
            THEN Return(obj, "panic", <<>>)   \* assignment to entry in nil map
            ELSE Update([obj EXCEPT !.labels = @ \cup options.resourceLabels], <<>>,
                        [options EXCEPT !.resourceLabels = {}])
       ELSE StatusUpdate(obj, status.val, CustomStateProcessing, <<>>)

\* HandleProcessingState returning the error of Install to its caller.
HandleProcessingState_Propagate(obj, in) ==
    LET spec == getSpecFromObjectInstance(obj)
        status == getStatusFromObjectInstance(obj)
        mc == getManifestClient(spec.val.ChartFlags, in)
    IN IF spec.err # "nil" THEN Return(obj, spec.err, <<>>)
       ELSE IF status.err # "nil" THEN Return(obj, status.err, <<>>)
       ELSE WithClient(mc,
            IF mc # "nil"
            THEN StatusUpdate(obj, status.val, CustomStateError, <<>>)
            ELSE IF prepareInstallInfo(obj) # "nil"
            THEN Return(obj, prepareInstallInfo(obj), <<>>)
            ELSE IF in.inst.err
            THEN Return(obj, "installError", <<Call("Install", in)>>)
            ELSE IF in.inst.done
            THEN StatusUpdate(obj, status.val, CustomStateReady, <<Call("Install", in)>>)
            ELSE Return(obj, "nil", <<Call("Install", in)>>))

HandleProcessingState(obj, in) ==
    LET spec == getSpecFromObjectInstance(obj)
        status == getStatusFromObjectInstance(obj)
        mc == getManifestClient(spec.val.ChartFlags, in)
    IN IF spec.err # "nil" THEN Return(obj, spec.err, <<>>)
       ELSE IF status.err # "nil" THEN Return(obj, status.err, <<>>)
       ELSE WithClient(mc,
            IF mc # "nil"
            THEN StatusUpdate(obj, status.val, CustomStateError, <<>>)
            ELSE IF prepareInstallInfo(obj) # "nil"
            THEN Return(obj, prepareInstallInfo(obj), <<>>)
            ELSE IF in.inst.err
            THEN StatusUpdate(obj, status.val, CustomStateError, <<Call("Install", in)>>)
            ELSE IF in.inst.done
            THEN StatusUpdate(obj, status.val, CustomStateReady, <<Call("Install", in)>>)
            ELSE Return(obj, "nil", <<Call("Install", in)>>))

\* HandleDeletingState retrying like the error handler when the manifest
\* client cannot be built: it commits Processing.
HandleDeletingState_ResetOnFailure(obj, in) ==
    LET spec == getSpecFromObjectInstance(obj)
        status == getStatusFromObjectInstance(obj)
        mc == getManifestClient(spec.val.ChartFlags, in)
    IN IF spec.err # "nil" THEN Return(obj, spec.err, <<>>)
       ELSE IF status.err # "nil" THEN Return(obj, status.err, <<>>)
       ELSE WithClient(mc,
            IF mc # "nil"
            THEN StatusUpdate(obj, status.val, CustomStateProcessing, <<>>)
            ELSE IF prepareInstallInfo(obj) # "nil"
            THEN Return(obj, prepareInstallInfo(obj), <<>>)
            ELSE IF in.inst.err
            THEN StatusUpdate(obj, status.val, CustomStateError, <<Call("Uninstall", in)>>)
            ELSE IF in.inst.done /\ RemoveFinalizer(obj, deletionFinalizer) # obj
            THEN Update(RemoveFinalizer(obj, deletionFinalizer),
                        <<Call("Uninstall", in)>>, options)
            ELSE Return(obj, "nil", <<Call("Uninstall", in)>>))

\* HandleDeletingState releasing the finalizer whenever Uninstall returns
\* no error, complete or not.
HandleDeletingState_EarlyRelease(obj, in) ==
    LET spec == getSpecFromObjectInstance(obj)
        status == getStatusFromObjectInstance(obj)
        mc == getManifestClient(spec.val.ChartFlags, in)
    IN IF spec.err # "nil" THEN Return(obj, spec.err, <<>>)
       ELSE IF status.err # "nil" THEN Return(obj, status.err, <<>>)
       ELSE WithClient(mc,
            IF mc # "nil"
            THEN StatusUpdate(obj, status.val, CustomStateError, <<>>)
            ELSE IF prepareInstallInfo(obj) # "nil"
            THEN Return(obj, prepareInstallInfo(obj), <<>>)
            ELSE IF in.inst.err
            THEN StatusUpdate(obj, status.val, CustomStateError, <<Call("Uninstall", in)>>)
            ELSE IF RemoveFinalizer(obj, deletionFinalizer) # obj
            THEN Update(RemoveFinalizer(obj, deletionFinalizer),
                        <<Call("Uninstall", in)>>, options)
            ELSE Return(obj, "nil", <<Call("Uninstall", in)>>))

HandleDeletingState(obj, in) ==
    LET spec == getSpecFromObjectInstance(obj)
        status == getStatusFromObjectInstance(obj)
        mc == getManifestClient(spec.val.ChartFlags, in)
    IN IF spec.err # "nil" THEN Return(obj, spec.err, <<>>)
       ELSE IF status.err # "nil" THEN Return(obj, status.err, <<>>)
       ELSE WithClient(mc,
            IF mc # "nil"
            THEN StatusUpdate(obj, status.val, CustomStateError, <<>>)
            ELSE IF prepareInstallInfo(obj) # "nil"
            THEN Return(obj, prepareInstallInfo(obj), <<>>)
            ELSE IF in.inst.err
            THEN StatusUpdate(obj, status.val, CustomStateError, <<Call("Uninstall", in)>>)
            ELSE IF in.inst.done /\ RemoveFinalizer(obj, deletionFinalizer) # obj
            THEN Update(RemoveFinalizer(obj, deletionFinalizer),
                        <<Call("Uninstall", in)>>, options)
            ELSE Return(obj, "nil", <<Call("Uninstall", in)>>))

\* HandleErrorState leaving the resource in Error.
HandleErrorState_Stay(obj, in) ==
    LET status == getStatusFromObjectInstance(obj)
    IN IF status.err # "nil" THEN Return(obj, status.err, <<>>)
       ELSE Return(obj, "nil", <<>>)

HandleErrorState(obj, in) ==
    LET status == getStatusFromObjectInstance(obj)
    IN IF status.err # "nil" THEN Return(obj, status.err, <<>>)
       ELSE StatusUpdate(obj, status.val, CustomStateProcessing, <<>>)

\* HandleReadyState re-installing: it puts the resource back to Processing.
HandleReadyState_Reinstall(obj, in) ==
    LET status == getStatusFromObjectInstance(obj)
    IN IF status.err # "nil" THEN Return(obj, status.err, <<>>)
       ELSE StatusUpdate(obj, status.val, CustomStateProcessing, <<>>)

HandleReadyState(obj, in) == Return(obj, "nil", <<>>)

----------------------------------------------------------------------------
(* Reconcile *)

\* The switch retrying the installation at once on state Error.
Dispatch_ErrorReinstalls(objectInstance, status, in) ==
    CASE status.State = CustomStateEmpty -> HandleInitialState(objectInstance, in)
      [] status.State = CustomStateProcessing -> HandleProcessingState(objectInstance, in)
      [] status.State = CustomStateDeleting -> HandleDeletingState(objectInstance, in)
      [] status.State = CustomStateError -> HandleProcessingState(objectInstance, in)
      [] status.State = CustomStateReady -> HandleReadyState(objectInstance, in)
      [] OTHER -> Return(objectInstance, "nil", <<>>)

\* switch status.State
Dispatch(objectInstance, status, in) ==
    CASE status.State = CustomStateEmpty -> HandleInitialState(objectInstance, in)
      [] status.State = CustomStateProcessing -> HandleProcessingState(objectInstance, in)
      [] status.State = CustomStateDeleting -> HandleDeletingState(objectInstance, in)
      [] status.State = CustomStateError -> HandleErrorState(objectInstance, in)
      [] status.State = CustomStateReady -> HandleReadyState(objectInstance, in)
      [] OTHER -> Return(objectInstance, "nil", <<>>)

\* controllerutil.AddFinalizer: the object with the finalizer in its list.
AddFinalizer(obj, finalizer) == [obj EXCEPT !.finalizers = @ \cup {finalizer}]

\* Reconcile of an engine whose prototype has representation proto, for
\* the resource res of the store.
ReconcileOn(proto, res, in) ==
    LET objectInstance == GetObjectOf(res, proto)
        status == getStatusFromObjectInstance(objectInstance)
    IN IF proto # "typed" THEN Return(objectInstance, "typeError", <<>>)
       ELSE IF GetResult(res, in) = "notFound"
       THEN Return(objectInstance, "nil", <<>>)
       ELSE IF GetResult(res, in) = "error"
       THEN Return(objectInstance, "getError", <<>>)
       ELSE IF status.err # "nil" THEN Return(objectInstance, status.err, <<>>)
       ELSE IF objectInstance.deletionTimestamp
               /\ status.val.State # CustomStateDeleting
       THEN StatusUpdate(objectInstance, status.val, CustomStateDeleting, <<>>)
       ELSE IF AddFinalizer(objectInstance, deletionFinalizer) # objectInstance
       THEN Update(AddFinalizer(objectInstance, deletionFinalizer), <<>>, options)
       ELSE Dispatch(objectInstance, status.val, in)

\* Reconcile without the finalizer gate: dispatches at once.
Reconcile_NoFinalizerGate(in) ==
    LET objectInstance == GetObject(prototype)
        status == getStatusFromObjectInstance(objectInstance)
    IN IF prototype # "typed" THEN Return(objectInstance, "typeError", <<>>)
       ELSE IF GetResult(stored, in) = "notFound"
       THEN Return(objectInstance, "nil", <<>>)
       ELSE IF GetResult(stored, in) = "error"
       THEN Return(objectInstance, "getError", <<>>)
       ELSE IF status.err # "nil" THEN Return(objectInstance, status.err, <<>>)
       ELSE IF objectInstance.deletionTimestamp
               /\ status.val.State # CustomStateDeleting
       THEN StatusUpdate(objectInstance, status.val, CustomStateDeleting, <<>>)
       ELSE Dispatch(objectInstance, status.val, in)

\* Reconcile checking the deletion timestamp only after the state dispatch
\* found nothing to do (states Ready and unknown).
Reconcile_DispatchFirst(in) ==
    LET objectInstance == GetObject(prototype)
        status == getStatusFromObjectInstance(objectInstance)
    IN IF prototype # "typed" THEN Return(objectInstance, "typeError", <<>>)
       ELSE IF GetResult(stored, in) = "notFound"
       THEN Return(objectInstance, "nil", <<>>)
       ELSE IF GetResult(stored, in) = "error"
       THEN Return(objectInstance, "getError", <<>>)
       ELSE IF status.err # "nil" THEN Return(objectInstance, status.err, <<>>)
       ELSE IF AddFinalizer(objectInstance, deletionFinalizer) # objectInstance
       THEN Update(AddFinalizer(objectInstance, deletionFinalizer), <<>>, options)
       ELSE IF status.val.State \in {CustomStateEmpty, CustomStateProcessing,
                                     CustomStateError, CustomStateDeleting}
       THEN Dispatch(objectInstance, status.val, in)
       ELSE IF objectInstance.deletionTimestamp
       THEN StatusUpdate(objectInstance, status.val, CustomStateDeleting, <<>>)
       ELSE Dispatch(objectInstance, status.val, in)

\* Reconcile returning the NotFound error of Get to its caller.
Reconcile_ReturnNotFound(in) ==
    IF GetResult(stored, in) = "notFound" /\ prototype = "typed"
    THEN Return(GetObject(prototype), "notFound", <<>>)
    ELSE ReconcileOn(prototype, stored, in)

\* Reconcile with || for && in the deletion check.
Reconcile_OrCondition(in) ==
    LET objectInstance == GetObject(prototype)
        status == getStatusFromObjectInstance(objectInstance)
    IN IF prototype # "typed" THEN Return(objectInstance, "typeError", <<>>)
       ELSE IF GetResult(stored, in) = "notFound"
       THEN Return(objectInstance, "nil", <<>>)
       ELSE IF GetResult(stored, in) = "error"
       THEN Return(objectInstance, "getError", <<>>)
       ELSE IF status.err # "nil" THEN Return(objectInstance, status.err, <<>>)
       ELSE IF objectInstance.deletionTimestamp
               \/ status.val.State # CustomStateDeleting
       THEN StatusUpdate(objectInstance, status.val, CustomStateDeleting, <<>>)
       ELSE IF AddFinalizer(objectInstance, deletionFinalizer) # objectInstance
       THEN Update(AddFinalizer(objectInstance, deletionFinalizer), <<>>, options)
       ELSE Dispatch(objectInstance, status.val, in)

Reconcile(in) == ReconcileOn(prototype, stored, in)

----------------------------------------------------------------------------
(* The cluster API *)

\* The API removes a resource that is marked for deletion and carries no
\* finalizer.
Collect(res) ==
    IF res.deletionTimestamp /\ res.finalizers = {}
    THEN [res EXCEPT !.exists = FALSE]
    ELSE res

\* nativeClient.Update: persists metadata and spec of the object; the
\* status is written only through the status sub-resource.
ClientUpdate(obj) ==
    Collect([stored EXCEPT
        !.finalizers = obj.finalizers,
        !.labels = obj.labels,
        !.spec = getSpecFromObjectInstance(obj).val])

\* nativeClient.Status().Update: persists the status of the object.
ClientStatusUpdate(obj) ==
    [stored EXCEPT !.status = getStatusFromObjectInstance(obj).val]

\* The persisted resource after a pass with outcome out under inputs in.
Commit(out, in) ==
    CASE out.commit = "Update" /\ in.commitOK -> ClientUpdate(out.obj)
      [] out.commit = "UpdateStatus" /\ in.commitOK -> ClientStatusUpdate(out.obj)
      [] OTHER -> stored

\* The resource the write of the pass asks the API to persist.
Wanted(out) ==
    CASE out.commit = "Update" -> ClientUpdate(out.obj)
      [] out.commit = "UpdateStatus" -> ClientStatusUpdate(out.obj)
      [] OTHER -> stored

\* What the pass returns: the handler's value, or the error of its write.
Result(out, in) ==
    IF out.commit # "none" /\ ~in.commitOK THEN "conflict" ELSE out.ret

NoPass ==
    [op |-> "none", rep |-> "typed", read |-> stored, options |-> options,
     get |-> "notCalled", commit |-> "none", rejected |-> FALSE, calls |-> <<>>,
     mc |-> "notCalled", ret |-> "nil", want |-> stored, after |-> stored,
     stale |-> FALSE, writes |-> <<>>]

\* The workers that may run passes for the resource key side by side.
Procs == {"p1", "p2"}

\* A worker between two passes.
Idle ==
    [pc |-> "idle", op |-> "none", rep |-> "typed", stale |-> FALSE,
     read |-> [exists |-> FALSE,
               spec |-> [ChartPath |-> "", ReleaseName |-> "", ChartFlags |-> ""],
               status |-> ZeroStatus, finalizers |-> {},
               deletionTimestamp |-> FALSE, labels |-> {}]]

\* The cluster API gives a changed resource a new resourceVersion: what the
\* passes in flight have read is no longer the current version.
Invalidate(ps) ==
    [q \in Procs |-> IF ps[q].pc = "read" THEN [ps[q] EXCEPT !.stale = TRUE]
                     ELSE ps[q]]

\* One pass: entry point op on an object of representation rep.
Pass(op, rep, in, out) ==
    /\ stored' = Commit(out, in)
    /\ options' = out.options
    /\ last' = [op |-> op, rep |-> rep, read |-> stored, options |-> options,
                get |-> IF op = "Reconcile" /\ rep = "typed"
                        THEN GetResult(stored, in) ELSE "notCalled",
                commit |-> out.commit,
                rejected |-> (out.commit # "none" /\ ~in.commitOK),
                calls |-> out.calls, mc |-> out.mc,
                ret |-> Result(out, in), want |-> Wanted(out),
                after |-> Commit(out, in), stale |-> FALSE,
                writes |-> out.writes]
    /\ UNCHANGED <<prototype, procs>>

----------------------------------------------------------------------------
(* Specification *)

Init ==
    /\ \E flags \in ChartFlagsSet, labels \in SUBSET OwnLabelKeys,
          fins \in SUBSET {foreignFinalizer} :
          stored = [exists |-> TRUE,
                    spec |-> [ChartPath |-> "./chart", ReleaseName |-> "release",
                              ChartFlags |-> flags],
                    status |-> ZeroStatus,
                    finalizers |-> fins,
                    deletionTimestamp |-> FALSE,
                    labels |-> labels]
    /\ prototype \in Reps
    /\ \E pending \in SUBSET ResourceLabelKeys :
          options = [force |-> FALSE, verify |-> FALSE, resourceLabels |-> pending]
    /\ last = NoPass
    /\ procs = [p \in Procs |-> Idle]

\* The scheduler delivers the resource key.
ReconcilePass ==
    \E in \in Inputs : Pass("Reconcile", prototype, in, Reconcile(in))

\* The exported handlers, called on an object read from the store.
InitialStateCall ==
    /\ stored.exists
    /\ \E rep \in Reps, in \in CommitInputs :
          Pass("HandleInitialState", rep, in, HandleInitialState(GetObject(rep), in))

ProcessingStateCall ==
    /\ stored.exists
    /\ \E rep \in Reps, in \in HandlerInputs :
          Pass("HandleProcessingState", rep, in, HandleProcessingState(GetObject(rep), in))

DeletingStateCall ==
    /\ stored.exists
    /\ \E rep \in Reps, in \in HandlerInputs :
          Pass("HandleDeletingState", rep, in, HandleDeletingState(GetObject(rep), in))

ErrorStateCall ==
    /\ stored.exists
    /\ \E rep \in Reps, in \in CommitInputs :
          Pass("HandleErrorState", rep, in, HandleErrorState(GetObject(rep), in))

ReadyStateCall ==
    /\ stored.exists
    /\ \E rep \in Reps, in \in CommitInputs :
          Pass("HandleReadyState", rep, in, HandleReadyState(GetObject(rep), in))

\* The owner asks for deletion: the API sets the deletion timestamp.
RequestDeletion ==
    /\ stored.exists
    /\ ~stored.deletionTimestamp
    /\ stored' = Collect([stored EXCEPT !.deletionTimestamp = TRUE])
    /\ procs' = Invalidate(procs)
    /\ UNCHANGED <<prototype, options, last>>

Next ==
    \/ ReconcilePass
    \/ InitialStateCall
    \/ ProcessingStateCall
    \/ DeletingStateCall
    \/ ErrorStateCall
    \/ ReadyStateCall
    \/ RequestDeletion

Spec == Init /\ [][Next]_vars

----------------------------------------------------------------------------
(* Specification with another writer of the status: types.CustomState is a
   string, and a client of the cluster API other than the engine can store
   a value the switch of Reconcile has no case for. *)

ForeignStatusWrite ==
    /\ stored.exists
    /\ stored.status.State # UnrecognisedState
    /\ stored' = [stored EXCEPT !.status.State = UnrecognisedState]
    /\ procs' = Invalidate(procs)
    /\ UNCHANGED <<prototype, options, last>>

NextOpen ==
    \/ Next
    \/ ForeignStatusWrite

SpecOpen == Init /\ [][NextOpen]_vars

----------------------------------------------------------------------------
(* Specification with fair delivery: the key keeps being delivered to
   Reconcile, and from some point on every delivery finds its collaborators
   willing: Get succeeds, the manifest client is built, the installer
   answers done without error and the write is accepted. *)

Favourable ==
    {in \in Inputs : /\ ~in.getErr
                     /\ ~in.newOpsErr
                     /\ in.inst = [done |-> TRUE, err |-> FALSE]
                     /\ in.commitOK}

Delivery == \E in \in Favourable : Pass("Reconcile", prototype, in, Reconcile(in))

\* An engine built for the typed resource, whose chart flags parse.
InitLive ==
    /\ Init
    /\ prototype = "typed"
    /\ strvalsParseInto(stored.spec.ChartFlags) = "nil"

NextLive ==
    \/ Delivery
    \/ RequestDeletion

SpecLive == InitLive /\ [][NextLive]_vars /\ WF_vars(Delivery)

----------------------------------------------------------------------------
(* Specification with interleaved passes: a pass reads the resource in one
   step and runs its handler, installer calls and write in a later one, so
   other workers and the owner can act on the resource in between. *)

\* The entry points the workers run side by side.
ConcOps == {"Reconcile", "HandleProcessingState", "HandleDeletingState"}

\* Update and Status().Update send the object that Get returned, with the
\* resourceVersion it was read at: the write stands only if that is still
\* the current version.
UpdatePrecondition_Patch(p) == TRUE

UpdatePrecondition(p) == ~procs[p].stale

\* What the pass in flight of worker p does when it goes on, under inputs in.
Outcome(p, in) ==
    LET pr == procs[p]
        obj == GetObjectOf(pr.read, pr.rep)
    IN CASE pr.op = "HandleProcessingState" -> HandleProcessingState(obj, in)
         [] pr.op = "HandleDeletingState" -> HandleDeletingState(obj, in)
         [] OTHER -> ReconcileOn(pr.rep, pr.read, in)

\* Worker p takes the key and reads the resource (Reconcile: r.Get).
Start(p) ==
    /\ procs[p].pc = "idle"
    /\ \E op \in ConcOps, rep \in {prototype, "generic"} :
          /\ op = "Reconcile" => rep = prototype
          /\ op # "Reconcile" => rep = "generic" /\ stored.exists
          /\ procs' = [procs EXCEPT ![p] = [pc |-> "read", op |-> op, rep |-> rep,
                                            stale |-> FALSE, read |-> stored]]
    /\ UNCHANGED <<stored, prototype, options, last>>

\* Worker p runs the rest of its pass on the object it read.
Finish(p) ==
    /\ procs[p].pc = "read"
    /\ \E in \in HandlerInputs :
          LET pr == procs[p]
              out == Outcome(p, in)
          IN /\ in.commitOK = UpdatePrecondition(p)
             /\ stored' = Commit(out, in)
             /\ options' = out.options
             /\ last' = [op |-> pr.op, rep |-> pr.rep, read |-> pr.read,
                         options |-> options,
                         get |-> IF pr.op = "Reconcile" /\ pr.rep = "typed"
                                 THEN GetResult(pr.read, in) ELSE "notCalled",
                         commit |-> out.commit,
                         rejected |-> (out.commit # "none" /\ ~in.commitOK),
                         calls |-> out.calls, mc |-> out.mc,
                         ret |-> Result(out, in), want |-> Wanted(out),
                         after |-> Commit(out, in), stale |-> pr.stale,
                         writes |-> out.writes]
             /\ procs' = [IF Commit(out, in) # stored THEN Invalidate(procs)
                          ELSE procs EXCEPT ![p] = Idle]
    /\ UNCHANGED prototype

InitConc ==
    /\ Init
    /\ prototype = "typed"
    /\ options.resourceLabels = {}
    /\ stored.labels = {}
    /\ stored.finalizers = {}
    /\ stored.spec.ChartFlags # ""

NextConc ==
    \/ \E p \in Procs : Start(p)
    \/ \E p \in Procs : Finish(p)
    \/ RequestDeletion

SpecConc == InitConc /\ [][NextConc]_vars

----------------------------------------------------------------------------
(* Vocabulary of the properties: all speak of the most recent pass, last *)

HasFinalizer(res) == deletionFinalizer \in res.finalizers

StateOf(res) == res.status.State

\* The last pass was a Reconcile that got the resource from the store.
ReconcileRead ==
    /\ last.op = "Reconcile"
    /\ last.get = "ok"

\* The last pass called fn, which answered (done, err).
Called(fn, done, err) == last.calls = <<[fn |-> fn, done |-> done, err |-> err]>>

\* The last pass asked the API to take the deletion finalizer off the resource.
IssuesRelease ==
    /\ last.commit = "Update"
    /\ HasFinalizer(last.read)
    /\ ~HasFinalizer(last.want)

\* The write of the last pass, if any, took effect or left the resource as read.
WriteSettled ==
    /\ last.ret = "nil" => last.after = last.want
    /\ last.ret # "nil" => last.after = last.read

----------------------------------------------------------------------------
(* C1: a Reconcile that reads a resource without the deletion finalizer and
   without deletion intent, whatever its status state, issues exactly one
   write, an Update that only adds the finalizer; it calls neither Install
   nor Uninstall and leaves the status as read. *)
C1_FinalizerFirst ==
    (ReconcileRead /\ ~HasFinalizer(last.read) /\ ~last.read.deletionTimestamp)
    => /\ last.commit = "Update"
       /\ last.want = [last.read EXCEPT !.finalizers = @ \cup {deletionFinalizer}]
       /\ last.calls = <<>>
       /\ last.mc = "notCalled"
       /\ last.after.status = last.read.status
       /\ last.ret \in {"nil", "conflict"}
       /\ WriteSettled

C1_Witness ==
    /\ ReconcileRead
    /\ ~HasFinalizer(last.read)
    /\ ~last.read.deletionTimestamp
    /\ StateOf(last.read) = CustomStateProcessing
    /\ last.ret = "nil"
    /\ HasFinalizer(last.after)

(* C2: a pass takes the deletion finalizer off the resource only if it called
   Uninstall and Uninstall returned removed=true without error; and a pass
   in which Uninstall returned that, on a resource carrying the finalizer,
   does take it off.  No other outcome releases the finalizer. *)
C2_ReleaseOnlyAfterTeardown ==
    /\ IssuesRelease => Called("Uninstall", TRUE, FALSE)
    /\ (HasFinalizer(last.read) /\ ~HasFinalizer(last.after))
          => Called("Uninstall", TRUE, FALSE)
    /\ (Called("Uninstall", TRUE, FALSE) /\ HasFinalizer(last.read))
          => IssuesRelease /\ WriteSettled

C2_Witness ==
    /\ Called("Uninstall", TRUE, FALSE)
    /\ StateOf(last.read) = CustomStateDeleting
    /\ HasFinalizer(last.read)
    /\ ~HasFinalizer(last.after)

(* C3: a Reconcile that reads state Empty, Processing, Ready or Error with
   deletion intent set issues one write, the status with state Deleting,
   and nothing else: no manifest client, no Install, no Ready or Error. *)
C3_DeletionPreempts ==
    (/\ ReconcileRead
     /\ last.read.deletionTimestamp
     /\ StateOf(last.read) \in {CustomStateEmpty, CustomStateProcessing,
                                CustomStateReady, CustomStateError})
    => /\ last.commit = "UpdateStatus"
       /\ last.want = [last.read EXCEPT !.status.State = CustomStateDeleting]
       /\ last.calls = <<>>
       /\ last.mc = "notCalled"
       /\ last.ret \in {"nil", "conflict"}
       /\ WriteSettled

C3_Witness ==
    /\ ReconcileRead
    /\ last.read.deletionTimestamp
    /\ StateOf(last.read) = CustomStateProcessing
    /\ HasFinalizer(last.read)
    /\ last.ret = "nil"
    /\ StateOf(last.after) = CustomStateDeleting

(* C4 as claimed: once the persisted state is Deleting, a Reconcile pass
   never leaves the resource in any other state. *)
C4_DeletingIsFinal ==
    (ReconcileRead /\ StateOf(last.read) = CustomStateDeleting)
    => StateOf(last.after) = CustomStateDeleting

\* The last pass ran the deleting handler on a resource in state Deleting.
DeletingPass ==
    /\ StateOf(last.read) = CustomStateDeleting
    /\ ReconcileRead \/ last.op = "HandleDeletingState"

(* C4 amended: once the persisted state is Deleting, a pass leaves it
   Deleting or commits Error, and it commits Error exactly when building
   the manifest client failed or Uninstall returned an error; it never
   commits Empty, Processing or Ready. *)
C4_DeletingOrError ==
    DeletingPass
    => /\ StateOf(last.want) \in {CustomStateDeleting, CustomStateError}
       /\ StateOf(last.after) \in {CustomStateDeleting, CustomStateError}
       /\ StateOf(last.want) = CustomStateError
             <=> \/ last.mc \in {"parseError", "newOperationsError"}
                 \/ Called("Uninstall", FALSE, TRUE)

C4_Witness ==
    /\ ReconcileRead
    /\ StateOf(last.read) = CustomStateDeleting
    /\ last.read.deletionTimestamp
    /\ StateOf(last.after) = CustomStateError

(* C5 as claimed: a Reconcile that reads state Error commits Processing,
   whatever the deletion intent and the finalizers. *)
C5_ErrorAlwaysRetries ==
    (ReconcileRead /\ StateOf(last.read) = CustomStateError)
    => /\ last.commit = "UpdateStatus"
       /\ StateOf(last.want) = CustomStateProcessing

(* C5 amended: a Reconcile that reads state Error with the finalizer present
   and no deletion intent commits Processing and nothing else; with
   deletion intent it commits Deleting instead; without the finalizer and
   without deletion intent it only adds the finalizer. *)
C5_ErrorRetriesUnlessPreempted ==
    (ReconcileRead /\ StateOf(last.read) = CustomStateError)
    => /\ (HasFinalizer(last.read) /\ ~last.read.deletionTimestamp)
             => /\ last.commit = "UpdateStatus"
                /\ last.want = [last.read EXCEPT !.status.State = CustomStateProcessing]
                /\ last.calls = <<>>
                /\ last.ret \in {"nil", "conflict"}
                /\ WriteSettled
       /\ last.read.deletionTimestamp
             => /\ last.commit = "UpdateStatus"
                /\ StateOf(last.want) = CustomStateDeleting
       /\ (~HasFinalizer(last.read) /\ ~last.read.deletionTimestamp)
             => /\ last.commit = "Update"
                /\ StateOf(last.want) = CustomStateError

C5_Witness ==
    /\ ReconcileRead
    /\ StateOf(last.read) = CustomStateError
    /\ HasFinalizer(last.read)
    /\ ~last.read.deletionTimestamp
    /\ last.ret = "nil"
    /\ StateOf(last.after) = CustomStateProcessing

(* C6: a Reconcile that reads state Ready with the finalizer present and no
   deletion intent writes nothing (status, finalizers, labels and spec stay
   as read), builds no manifest client, calls no installer, leaves the
   options alone and returns no error; so the next pass reads the same. *)
C6_ReadyIsIdempotent ==
    (/\ ReconcileRead
     /\ StateOf(last.read) = CustomStateReady
     /\ HasFinalizer(last.read)
     /\ ~last.read.deletionTimestamp)
    => /\ last.commit = "none"
       /\ last.after = last.read
       /\ last.calls = <<>>
       /\ last.mc = "notCalled"
       /\ last.ret = "nil"
       /\ options = last.options

C6_Witness ==
    /\ ReconcileRead
    /\ StateOf(last.read) = CustomStateReady
    /\ HasFinalizer(last.read)
    /\ ~last.read.deletionTimestamp
    /\ last.ret = "nil"
    /\ stored = last.read

\* The last pass called the installer, which returned an error.
InstallerFailed == Called("Install", FALSE, TRUE) \/ Called("Uninstall", FALSE, TRUE)

(* C7: a pass in which Install or Uninstall returns an error issues one
   write, the status with state Error; when the write is accepted the
   persisted state is Error and the pass returns no error.  The installer's
   error is never the value the pass returns. *)
C7_InstallerErrorAbsorbed ==
    InstallerFailed
    => /\ last.commit = "UpdateStatus"
       /\ last.want = [last.read EXCEPT !.status.State = CustomStateError]
       /\ last.ret \in {"nil", "conflict"}
       /\ WriteSettled

C7_Witness ==
    /\ Called("Install", FALSE, TRUE)
    /\ StateOf(last.read) = CustomStateProcessing
    /\ last.ret = "nil"
    /\ StateOf(last.after) = CustomStateError

(* C8 as claimed: a pass in which Install or Uninstall returns an error, and
   whose status write is accepted, appends one condition to the persisted
   status conditions. *)
C8_FailureConditionRecorded ==
    (InstallerFailed /\ last.ret = "nil")
    => Len(last.after.status.Conditions) = Len(last.read.status.Conditions) + 1

\* The last Reconcile dispatched on state with the finalizer present, deletion
\* intent as given, and built its manifest client.
Dispatched(state, deleting) ==
    /\ ReconcileRead
    /\ StateOf(last.read) = state
    /\ HasFinalizer(last.read)
    /\ last.read.deletionTimestamp = deleting
    /\ last.mc = "nil"

(* C9 as claimed: from an empty resource, pass 1 only adds the finalizer;
   pass 2 (no resource labels configured) commits Processing; a pass on
   Processing calls Install, and leaves the resource as read and returns no
   error when Install answers ready=false, and commits Ready when Install
   answers ready=true. *)
C9_InstallScenario ==
    /\ (/\ ReconcileRead
        /\ StateOf(last.read) = CustomStateEmpty
        /\ ~last.read.deletionTimestamp
        /\ ~HasFinalizer(last.read))
       => last.want = [last.read EXCEPT !.finalizers = @ \cup {deletionFinalizer}]
    /\ (/\ ReconcileRead
        /\ StateOf(last.read) = CustomStateEmpty
        /\ ~last.read.deletionTimestamp
        /\ HasFinalizer(last.read)
        /\ last.options.resourceLabels = {})
       => last.want = [last.read EXCEPT !.status.State = CustomStateProcessing]
    /\ Dispatched(CustomStateProcessing, FALSE)
       => /\ last.calls # <<>>
          /\ last.calls[1].fn = "Install"
          /\ Called("Install", FALSE, FALSE)
                => last.after = last.read /\ last.ret = "nil"
          /\ Called("Install", TRUE, FALSE)
                => StateOf(last.want) = CustomStateReady

(* C10 as claimed: a pass on Ready with deletion intent commits Deleting; a
   pass on Deleting calls Uninstall, and leaves state and finalizer in place
   when Uninstall answers removed=false, and removes the finalizer when
   Uninstall answers removed=true. *)
C10_TeardownScenario ==
    /\ (/\ ReconcileRead
        /\ StateOf(last.read) = CustomStateReady
        /\ HasFinalizer(last.read)
        /\ last.read.deletionTimestamp)
       => StateOf(last.want) = CustomStateDeleting
    /\ Dispatched(CustomStateDeleting, TRUE)
       => /\ last.calls # <<>>
          /\ last.calls[1].fn = "Uninstall"
          /\ Called("Uninstall", FALSE, FALSE) => last.after = last.read
          /\ Called("Uninstall", TRUE, FALSE) => IssuesRelease

\* What a caller and the cluster can observe of a pass with outcome out.
Observable(out, in) ==
    [commit |-> out.commit, want |-> Wanted(out), calls |-> out.calls,
     ret |-> Result(out, in)]

(* C11 as claimed: for the same persisted resource and the same answers of
   the collaborators, Reconcile of an engine holding the typed
   representation and Reconcile of an engine holding the generic one issue
   the same write, make the same installer calls and return the same. *)
C11_RepresentationEquivalence ==
    \A in \in Inputs :
        Observable(ReconcileOn("typed", stored, in), in)
            = Observable(ReconcileOn("generic", stored, in), in)

(* C12 as claimed: a Reconcile whose manifest client cannot be built because
   the chart flags do not parse writes nothing and returns the error. *)
C12_BuildErrorSurfaced ==
    (ReconcileRead /\ last.mc = "parseError")
    => /\ last.commit = "none"
       /\ last.after = last.read
       /\ last.ret = "parseError"

(* C13 as claimed: a Reconcile whose write is rejected with a conflict leaves
   the persisted resource unchanged and returns no error. *)
C13_ConflictAbandoned ==
    (last.op = "Reconcile" /\ last.rejected)
    => /\ last.after = last.read
       /\ last.ret = "nil"

\* The last pass wrote nothing, called nothing and left the options alone.
NothingDone ==
    /\ last.commit = "none"
    /\ last.after = last.read
    /\ last.calls = <<>>
    /\ last.mc = "notCalled"
    /\ options = last.options

(* C14: a Reconcile whose Get answers NotFound returns no error, and one
   whose Get fails otherwise returns that error; both write nothing and call
   neither Install nor Uninstall. *)
C14_GetFailure ==
    /\ last.get = "notFound" => last.ret = "nil" /\ NothingDone
    /\ last.get = "error" => last.ret = "getError" /\ NothingDone

C14_Witness ==
    /\ last.op = "Reconcile"
    /\ last.get = "notFound"
    /\ ~last.read.exists
    /\ last.read.deletionTimestamp
    /\ last.ret = "nil"

(* C15 as claimed: two successive Reconcile passes that read identical
   persisted resources and get identical answers from Get, the manifest
   client, the installer and the cluster API issue the same write and return
   the same. *)
C15_PassIsFunctionOfResource ==
    [][(/\ last.op = "Reconcile"
        /\ last'.op = "Reconcile"
        /\ last'.read = last.read
        /\ last'.get = last.get
        /\ last'.mc = last.mc
        /\ last'.calls = last.calls
        /\ last'.rejected = last.rejected)
       => /\ last'.commit = last.commit
          /\ last'.want = last.want
          /\ last'.ret = last.ret]_vars

\* The pass in flight of worker p read a resource it was to install
\* (state Processing, finalizer held, no deletion intent) and, going on,
\* calls Install.
InstallPending(p) ==
    /\ procs[p].pc = "read"
    /\ StateOf(procs[p].read) = CustomStateProcessing
    /\ HasFinalizer(procs[p].read)
    /\ ~procs[p].read.deletionTimestamp
    /\ \E in \in HandlerInputs :
          \E i \in DOMAIN Outcome(p, in).calls :
              Outcome(p, in).calls[i].fn = "Install"

(* C16 as claimed: with interleaved passes, while a pass that has read the
   resource is yet to issue its Install call, the persisted resource exists
   and holds the deletion finalizer. *)
C16_NoReleaseWhileInstalling ==
    \A p \in Procs : InstallPending(p) => stored.exists /\ HasFinalizer(stored)

(* C17: with interleaved passes, a pass that read the resource in a state
   other than Deleting and goes on when the persisted state is Deleting
   changes nothing in the persisted resource, and its write, if it issues
   one, is rejected with a conflict. *)
C17_StaleWriteRejected ==
    [][\A p \in Procs :
          (/\ procs[p].pc = "read"
           /\ procs'[p].pc = "idle"
           /\ procs[p].read.exists
           /\ StateOf(procs[p].read) # CustomStateDeleting
           /\ stored.exists
           /\ StateOf(stored) = CustomStateDeleting)
          => /\ stored' = stored
             /\ last'.commit # "none" => last'.ret = "conflict"]_vars

C17_Witness ==
    /\ last.stale
    /\ last.op = "Reconcile"
    /\ StateOf(last.read) = CustomStateProcessing
    /\ last.commit = "UpdateStatus"
    /\ StateOf(last.want) = CustomStateError
    /\ last.ret = "conflict"
    /\ stored.exists
    /\ StateOf(stored) = CustomStateDeleting

(* C18 as claimed: a Reconcile that reads a resource with deletion intent set
   and without the deletion finalizer does not add the finalizer. *)
C18_NoFinalizerWhileDeleting ==
    (ReconcileRead /\ last.read.deletionTimestamp /\ ~HasFinalizer(last.read))
    => ~(last.commit = "Update" /\ HasFinalizer(last.want))

(* C19 as claimed: a Reconcile dispatched on state Empty (finalizer present,
   no deletion intent) whose write is not rejected ends with persisted state
   Processing, resource labels pending or not. *)
C19_EmptyBecomesProcessing ==
    (/\ ReconcileRead
     /\ StateOf(last.read) = CustomStateEmpty
     /\ HasFinalizer(last.read)
     /\ ~last.read.deletionTimestamp
     /\ ~last.rejected)
    => StateOf(last.after) = CustomStateProcessing

(* C20: whenever the persisted state is Deleting, deletion intent is set; and
   a pass that writes state Deleting over another state is a Reconcile that
   read the resource with its deletion timestamp set. *)
C20_DeletingOnlyByIntent ==
    /\ StateOf(stored) = CustomStateDeleting => stored.deletionTimestamp
    /\ (/\ last.commit # "none"
        /\ StateOf(last.want) = CustomStateDeleting
        /\ StateOf(last.read) # CustomStateDeleting)
       => /\ last.op = "Reconcile"
          /\ last.read.deletionTimestamp

C20_Witness ==
    /\ last.op = "Reconcile"
    /\ StateOf(last.read) = CustomStateProcessing
    /\ last.read.deletionTimestamp
    /\ StateOf(stored) = CustomStateDeleting
    /\ stored.exists

\* The last pass got an object whose state has no handler that writes:
\* Ready, or a value the switch has no case for.
ReadRestingState ==
    /\ last.op \in {"Reconcile", "HandleReadyState"}
    /\ last.op = "Reconcile" => last.get = "ok"
    /\ StateOf(last.read) \in {CustomStateReady, UnrecognisedState}

(* C23 as claimed: every pass issues at most one write, and a pass that
   reads state Ready or an unrecognised state value issues none. *)
C23_OneWriteNoneAtRest ==
    /\ Len(last.writes) <= 1
    /\ ReadRestingState => last.writes = <<>>

(* C23 as amended: every pass issues at most one write, an Update or a
   Status().Update, and returns the result of that write; a pass that reads
   state Ready or an unrecognised state value with the finalizer present and
   no deletion intent issues none and returns no error. *)
C23_OneWriteNoneWhenDispatchedAtRest ==
    /\ Len(last.writes) <= 1
    /\ last.writes # <<>> => /\ last.writes = <<last.commit>>
                             /\ last.ret = IF last.rejected THEN "conflict" ELSE "nil"
    /\ last.writes = <<>> => last.commit = "none" /\ last.after = last.read
    /\ (/\ ReadRestingState
        /\ HasFinalizer(last.read) \/ last.op = "HandleReadyState"
        /\ ~last.read.deletionTimestamp \/ last.op = "HandleReadyState")
       => last.writes = <<>> /\ last.ret = "nil"

C23_Witness ==
    /\ ReconcileRead
    /\ StateOf(last.read) = UnrecognisedState
    /\ HasFinalizer(last.read)
    /\ ~last.read.deletionTimestamp
    /\ last.writes = <<>>
    /\ last.ret = "nil"
    /\ stored = last.read

\* Every installer call of the last pass is a call of fn.
CallsOnly(fn) == \A i \in DOMAIN last.calls : last.calls[i].fn = fn

\* The last pass reached its installer stage: it asked for a manifest
\* client, the step before Install / Uninstall, or called the installer.
InstallerStage == last.mc # "notCalled" \/ last.calls # <<>>

(* C24: every pass makes at most one installer call.  A Reconcile reaches
   the installer stage only having read the finalizer present and either
   state Processing without deletion intent, and then it calls nothing but
   Install, or state Deleting, and then it calls nothing but Uninstall; so a
   Reconcile that read Empty, Ready or Error calls neither.  Of the exported
   handlers only HandleProcessingState calls Install and only
   HandleDeletingState calls Uninstall. *)
C24_InstallerCallMatchesRead ==
    /\ Len(last.calls) <= 1
    /\ (last.op = "Reconcile" /\ InstallerStage)
       => /\ ReconcileRead
          /\ HasFinalizer(last.read)
          /\ \/ /\ StateOf(last.read) = CustomStateProcessing
                /\ ~last.read.deletionTimestamp
                /\ CallsOnly("Install")
             \/ /\ StateOf(last.read) = CustomStateDeleting
                /\ CallsOnly("Uninstall")
    /\ last.op = "HandleProcessingState" => CallsOnly("Install")
    /\ last.op = "HandleDeletingState" => CallsOnly("Uninstall")
    /\ last.op \in {"HandleInitialState", "HandleErrorState", "HandleReadyState"}
       => ~InstallerStage

C24_Witness ==
    /\ last.op = "HandleProcessingState"
    /\ StateOf(last.read) = CustomStateProcessing
    /\ HasFinalizer(last.read)
    /\ ~last.read.deletionTimestamp
    /\ Len(last.calls) = 1
    /\ last.calls[1].fn = "Install"

(* C21: no pass changes the Spec of the resource: the write a pass issues
   asks for the Spec as read, the persisted Spec after the pass is the Spec
   as read, and the status conditions stay as read too; a write differs from
   what was read only in status.state, the finalizers or the labels. *)
C21_SpecIsReadOnly ==
    /\ last.want.spec = last.read.spec
    /\ last.after.spec = last.read.spec
    /\ last.want.status.Conditions = last.read.status.Conditions
    /\ last.after.status.Conditions = last.read.status.Conditions

C21_Witness ==
    /\ last.op = "HandleInitialState"
    /\ last.commit = "Update"
    /\ ~last.rejected
    /\ last.after.labels # last.read.labels
    /\ last.read.spec.ChartFlags = "replicas=1"
    /\ last.after.spec = last.read.spec

\* The statuses SetStatus is given.
StatusValues ==
    [State : {CustomStateEmpty, CustomStateProcessing, CustomStateDeleting,
              CustomStateError, CustomStateReady},
     Conditions : {<<>>, <<"Installed">>}]

(* C22: on the typed and on the generic representation of the resource,
   SetStatus succeeds, GetStatus then returns the status that was set, and
   GetSpec returns what it returned before; on any other representation
   GetSpec, GetStatus and SetStatus return the type error and SetStatus
   leaves the object as it was. *)
C22_AccessorRoundTrip ==
    \A rep \in Reps, status \in StatusValues :
        LET obj == GetObject(rep)
            set == setStatusForObjectInstance(obj, status)
        IN IF rep \in {"typed", "generic"}
           THEN /\ set.err = "nil"
                /\ getStatusFromObjectInstance(set.obj) = [err |-> "nil", val |-> status]
                /\ getSpecFromObjectInstance(set.obj) = getSpecFromObjectInstance(obj)
                /\ getSpecFromObjectInstance(obj) = [err |-> "nil", val |-> stored.spec]
           ELSE /\ set.err = "typeError"
                /\ set.obj = obj
                /\ getStatusFromObjectInstance(obj).err = "typeError"
                /\ getSpecFromObjectInstance(obj).err = "typeError"

C22_Witness ==
    /\ last.op = "HandleProcessingState"
    /\ last.rep = "generic"
    /\ last.commit = "UpdateStatus"
    /\ ~last.rejected
    /\ getStatusFromObjectInstance(GetObject("generic")).val.State = CustomStateReady
    /\ getSpecFromObjectInstance(GetObject("generic")).val.ChartFlags = "replicas=1"

(* C25 as claimed: when the key keeps being delivered and Uninstall answers
   removed=true from some point on, a resource with deletion intent set and
   the finalizer present eventually has the finalizer removed (and is then
   collected), whatever state it was in. *)
C25_TeardownCompletes ==
    (stored.exists /\ stored.deletionTimestamp /\ HasFinalizer(stored))
    ~> (~stored.exists \/ ~HasFinalizer(stored))

====
